---- MODULE Spec2Model ----
(***************************************************************************)
(* Model of the RaceChrono DIY BLE device library (esp32_racechrono.cpp,   *)
(* esp32_racechrono.hpp): the Monitor protocol engine, its equations, the  *)
(* liveness timer t_state and the BLE callbacks that drive it.             *)
(*                                                                         *)
(* In Spec, SpecReg and SpecSilent every handler runs to completion as one *)
(* action; SpecConc interleaves the statements of the timer handler with   *)
(* those of a write handler, pc holding each task's position.  The         *)
(* handlers are functions on a record m that holds the fields they touch:  *)
(*   state, eqs, t_state   the Monitor members of the same names           *)
(*   sent                  what the handler handed to indicate()/notify()  *)
(*   armed                 the durations the handler passed to attach_ms   *)
(*   crashed, stray        the outcome of an out-of-bounds eqs[] access    *)
(***************************************************************************)
EXTENDS Integers, Naturals, Sequences, FiniteSets, TLC

VARIABLES state, eqs, t_state, connected, sent, armed, crashed, stray, last, pc

vars == <<state, eqs, t_state, connected, sent, armed, crashed, stray, last, pc>>

----------------------------------------------------------------------------
(* Bounds of the model *)

\* the most equations add() is called for
MaxEqs == 2
\* the most peers the BLE server reports as connected
MaxPeers == 1
\* the longest expression text given to add()
MaxExprLen == 35

----------------------------------------------------------------------------
(* Program constants *)

TIMEOUT_REFRESH_MS == 1500
TIMEOUT_RESET_MS == 3000
TIMEOUT_INIT_MS == 1000
max_payload == 17
INT32_MAX == 2147483647

UNINITIALIZED == "UNINITIALIZED"
STARTED == "STARTED"
ACTIVE == "ACTIVE"
FORCED_REFRESH == "FORCED_REFRESH"

monitor_state_t == {UNINITIALIZED, STARTED, ACTIVE, FORCED_REFRESH}

\* the float NAN
NAN == [nan |-> TRUE]

----------------------------------------------------------------------------
(* Floats: a finite float is sig * 2^exp with |sig| <= 2^24 *)

Pow2(n) == 2 ^ n

Abs(x) == IF x < 0 THEN -x ELSE x

RECURSIVE ShiftFor(_, _)
\* the least e with a div 2^e < 2^24
ShiftFor(a, e) == IF a < Pow2(24) THEN e ELSE ShiftFor(a \div 2, e + 1)

\* static_cast<float>(raw): round to nearest, ties to even, 24-bit significand
ToFloat(raw) ==
    LET a == IF raw = -INT32_MAX - 1 THEN INT32_MAX ELSE Abs(raw)
        e == ShiftFor(a, 0)
        q == a \div Pow2(e)
        r == a % Pow2(e)
        half == IF e = 0 THEN 0 ELSE Pow2(e - 1)
        up == e > 0 /\ (r > half \/ (r = half /\ q % 2 = 1))
        s == IF up THEN q + 1 ELSE q
        sgn == IF raw < 0 THEN -1 ELSE 1
    IN  IF raw = -INT32_MAX - 1 THEN [nan |-> FALSE, sig |-> -Pow2(23), exp |-> 8]
        ELSE IF s = Pow2(24) /\ e > 0
             THEN [nan |-> FALSE, sig |-> sgn * Pow2(23), exp |-> e + 1]
             ELSE [nan |-> FALSE, sig |-> sgn * s, exp |-> e]

\* 1.0f / scale for a scale that is 2^k: exactly 2^-k
ScaleInv(k) == [nan |-> FALSE, sig |-> 1, exp |-> -k]

\* a * b where b is a power of two (exact in binary floating point)
FMul(a, b) == [nan |-> FALSE, sig |-> a.sig * b.sig, exp |-> a.exp + b.exp]

----------------------------------------------------------------------------
(* Equation *)

\* the expression text of length L: byte k is distinct from every other
ExprText(L) == [k \in 1..L |-> 32 + k]

\* Equation::Equation(equation, scale) with scale = 2^k
Equation(text, k) == [equation |-> text, scale_inv |-> ScaleInv(k), value |-> NAN]

\* update_from_raw without the test for the invalid-data value
update_from_raw_no_sentinel(eq, raw) ==
    [eq EXCEPT !.value = FMul(ToFloat(raw), eq.scale_inv)]

\* Equation::update_from_raw
update_from_raw(eq, raw) ==
    [eq EXCEPT !.value = IF raw = INT32_MAX THEN NAN
                         ELSE FMul(ToFloat(raw), eq.scale_inv)]

\* Equation::clear
clear(eq) == [eq EXCEPT !.value = NAN]

----------------------------------------------------------------------------
(* Transport: what a handler hands to a characteristic *)

Msg(ch, bytes) == [ch |-> ch, bytes |-> bytes]

\* config_ch->setValue(payload, len); config_ch->indicate();
indicate(m, bytes) == [m EXCEPT !.sent = Append(@, Msg("config", bytes))]

\* t_state.attach_ms(ms, impl::t_state_callback, this): replaces the deadline
attach_ms(m, ms) == [m EXCEPT !.t_state = ms, !.armed = Append(@, ms)]

----------------------------------------------------------------------------
(* Monitor *)

\* timeout_reset that re-arms the timer and never advances the state
timeout_reset_keeps_state(m, update_state) ==
    IF m.state \in {STARTED, ACTIVE, FORCED_REFRESH}
    THEN attach_ms(m, TIMEOUT_REFRESH_MS)
    ELSE m

\* Monitor::timeout_reset(update_state)
timeout_reset(m, update_state) ==
    IF m.state \in {STARTED, ACTIVE, FORCED_REFRESH}
    THEN LET a == attach_ms(m, TIMEOUT_REFRESH_MS)
         IN  IF update_state THEN [a EXCEPT !.state = ACTIVE] ELSE a
    ELSE m

RECURSIVE ChunkLoop_ge(_, _, _, _)
\* the inner loop with "equation_len - i >= max_payload" for "more"
ChunkLoop_ge(text, eq_idx, i, seq_num) ==
    IF ~(i < Len(text)) THEN <<>>
    ELSE LET more == Len(text) - i >= max_payload
             kind == IF more THEN 2 ELSE 3
             payload_len == IF more THEN 20 ELSE 3 + (Len(text) - i)
             body == SubSeq(text, i + 1, i + payload_len - 3)
         IN  << <<kind, eq_idx % 256, seq_num>> \o body >>
             \o ChunkLoop_ge(text, eq_idx, i + max_payload, (seq_num + 1) % 256)

RECURSIVE ChunkLoop_substr0(_, _, _, _)
\* the inner loop copying from substr(0) in every chunk
ChunkLoop_substr0(text, eq_idx, i, seq_num) ==
    IF ~(i < Len(text)) THEN <<>>
    ELSE LET more == Len(text) - i > max_payload
             kind == IF more THEN 2 ELSE 3
             payload_len == IF more THEN 20 ELSE 3 + (Len(text) - i)
             body == SubSeq(text, 1, payload_len - 3)
         IN  << <<kind, eq_idx % 256, seq_num>> \o body >>
             \o ChunkLoop_substr0(text, eq_idx, i + max_payload, (seq_num + 1) % 256)

RECURSIVE ChunkLoop(_, _, _, _)
\* the inner loop of configure_equations for equation eq_idx, from offset i
ChunkLoop(text, eq_idx, i, seq_num) ==
    IF ~(i < Len(text)) THEN <<>>
    ELSE LET more == Len(text) - i > max_payload
             kind == IF more THEN 2 ELSE 3
             payload_len == IF more THEN 20 ELSE 3 + (Len(text) - i)
             body == SubSeq(text, i + 1, i + payload_len - 3)
         IN  << <<kind, eq_idx % 256, seq_num>> \o body >>
             \o ChunkLoop(text, eq_idx, i + max_payload, (seq_num + 1) % 256)

RECURSIVE EquationLoop(_, _)
\* the outer loop of configure_equations, from equation eq_idx (0-based)
EquationLoop(es, eq_idx) ==
    IF ~(eq_idx < Len(es)) THEN <<>>
    ELSE ChunkLoop(es[eq_idx + 1].equation, eq_idx, 0, 0)
         \o EquationLoop(es, eq_idx + 1)

RECURSIVE IndicateAll(_, _)
IndicateAll(m, chunks) ==
    IF chunks = <<>> THEN m
    ELSE IndicateAll(indicate(m, Head(chunks)), Tail(chunks))

\* configure_equations that returns without touching the timer when nobody
\* is connected
configure_equations_no_rearm(m, cnt) ==
    IF cnt = 0 THEN m
    ELSE timeout_reset(IndicateAll(m, EquationLoop(m.eqs, 0)), FALSE)

\* Monitor::configure_equations, cnt = server->getConnectedCount()
configure_equations(m, cnt) ==
    IF cnt = 0 THEN timeout_reset(m, FALSE)
    ELSE timeout_reset(IndicateAll(m, EquationLoop(m.eqs, 0)), FALSE)

\* Monitor::update_all
update_all(m) == indicate(m, <<4>>)

\* the loop "for (auto eq : eqs) { eq.clear(); }": eq is a copy of the
\* element, so clear() acts on the copy and the vector is left as it was
ClearLoop(es) ==
    LET copies == [i \in 1..Len(es) |-> clear(es[i])] IN es

\* reset that sends the Reset command without asking for connected peers
reset_unguarded(m, cnt) ==
    LET m1 == indicate(m, <<0>>)
        m2 == [m1 EXCEPT !.eqs = ClearLoop(@)]
        m3 == [m2 EXCEPT !.state = STARTED]
    IN  configure_equations(m3, cnt)

\* reset that leaves the session state as it was
reset_keeps_state(m, cnt) ==
    LET m1 == IF cnt > 0 THEN indicate(m, <<0>>) ELSE m
        m2 == [m1 EXCEPT !.eqs = ClearLoop(@)]
    IN  configure_equations(m2, cnt)

\* Monitor::reset
reset(m, cnt) ==
    LET m1 == IF cnt > 0 THEN indicate(m, <<0>>) ELSE m
        m2 == [m1 EXCEPT !.eqs = ClearLoop(@)]
        m3 == [m2 EXCEPT !.state = STARTED]
    IN  configure_equations(m3, cnt)

\* data_valid that holds in ACTIVE only
data_valid_active_only(s) == s = ACTIVE

\* Monitor::data_valid
data_valid(s) == s = ACTIVE \/ s = FORCED_REFRESH

\* timeout_state that arms the whole TIMEOUT_RESET_MS in ACTIVE
timeout_state_full_reset(m, cnt) ==
    CASE m.state = STARTED ->
            configure_equations(attach_ms(m, TIMEOUT_INIT_MS), cnt)
      [] m.state = ACTIVE ->
            LET a == attach_ms(m, TIMEOUT_RESET_MS)
            IN  update_all([a EXCEPT !.state = FORCED_REFRESH])
      [] m.state = FORCED_REFRESH -> reset(m, cnt)
      [] OTHER -> m

\* timeout_state whose ACTIVE case does not arm the timer
timeout_state_active_no_attach(m, cnt) ==
    CASE m.state = STARTED ->
            configure_equations(attach_ms(m, TIMEOUT_INIT_MS), cnt)
      [] m.state = ACTIVE ->
            update_all([m EXCEPT !.state = FORCED_REFRESH])
      [] m.state = FORCED_REFRESH -> reset(m, cnt)
      [] OTHER -> m

\* Monitor::timeout_state
timeout_state(m, cnt) ==
    CASE m.state = STARTED ->
            configure_equations(attach_ms(m, TIMEOUT_INIT_MS), cnt)
      [] m.state = ACTIVE ->
            LET a == attach_ms(m, TIMEOUT_RESET_MS - TIMEOUT_REFRESH_MS)
            IN  update_all([a EXCEPT !.state = FORCED_REFRESH])
      [] m.state = FORCED_REFRESH -> reset(m, cnt)
      [] OTHER -> m

----------------------------------------------------------------------------
(* CANSpoof *)

\* main_ch->setValue(payload, len); main_ch->notify();
notify(m, bytes) == [m EXCEPT !.sent = Append(@, Msg("main", bytes))]

\* update that writes the id with its most significant byte first
CANSpoof_update_big_endian(m, cnt, id, data) ==
    IF cnt = 0 THEN m
    ELSE notify(m, <<(id \div 16777216) % 256, (id \div 65536) % 256,
                     (id \div 256) % 256, id % 256, data>>)

\* CANSpoof::update(id, data), cnt = server->getConnectedCount(); a byte of
\* the payload is the low 8 bits of the shifted id
CANSpoof_update(m, cnt, id, data) ==
    IF cnt = 0 THEN m
    ELSE notify(m, <<id % 256, (id \div 256) % 256,
                     (id \div 65536) % 256, (id \div 16777216) % 256, data>>)

----------------------------------------------------------------------------
(* BLE characteristic callbacks *)

\* onWrite that tests the first byte and not the length
MonConfigCallbacks_onWrite_no_length(m, raw) ==
    IF Len(raw) >= 1 /\ raw[1] = 0 THEN timeout_reset(m, TRUE) ELSE m

\* onWrite that refreshes on every write, whatever the payload
MonConfigCallbacks_onWrite_any(m, raw) == timeout_reset(m, TRUE)

\* impl::MonConfigCallbacks::onWrite, raw = ch->getData(), Len(raw) = ch->getLength()
MonConfigCallbacks_onWrite(m, raw) ==
    IF Len(raw) = 2 /\ raw[1] = 0 THEN timeout_reset(m, TRUE) ELSE m

\* raw[k] (0-based) as the decode loop reads it: a byte at or beyond
\* getLength() is outside the written value and reads as garbage g
ByteAt(raw, k, g) == IF k < Len(raw) THEN raw[k + 1] ELSE g

\* b1<<24 | b2<<16 | b3<<8 | b4 as a 32-bit two's complement int
Int32(b1, b2, b3, b4) ==
    (IF b1 >= 128 THEN b1 - 256 ELSE b1) * 16777216 + b2 * 65536 + b3 * 256 + b4

\* mon->eqs[monitor_id].update_from_raw(val_raw): std::vector::operator[] is
\* unchecked, so an index at or beyond eqs.size() is an out-of-bounds write:
\* the build either faults there (ub = "fault") or stores the float in memory
\* that is not part of the equation list (ub = "stray")
IndexUpdate(m, monitor_id, val_raw, ub) ==
    IF monitor_id < Len(m.eqs)
    THEN [m EXCEPT !.eqs[monitor_id + 1] = update_from_raw(@, val_raw)]
    ELSE IF ub = "fault" THEN [m EXCEPT !.crashed = TRUE]
         ELSE [m EXCEPT !.stray = TRUE]

RECURSIVE DecodeLoop(_, _, _, _, _)
\* the loop "for (int i = 0; i < ch->getLength(); i += 5)"
DecodeLoop(m, raw, i, g, ub) ==
    IF ~(i < Len(raw)) \/ m.crashed THEN m
    ELSE LET monitor_id == ByteAt(raw, i, g)
             val_raw == Int32(ByteAt(raw, i + 1, g), ByteAt(raw, i + 2, g),
                              ByteAt(raw, i + 3, g), ByteAt(raw, i + 4, g))
         IN  DecodeLoop(IndexUpdate(m, monitor_id, val_raw, ub), raw, i + 5, g, ub)

\* impl::MonNotifyCallbacks::onWrite
MonNotifyCallbacks_onWrite(m, raw, g, ub) ==
    LET d == DecodeLoop(m, raw, 0, g, ub)
    IN  IF d.crashed THEN d ELSE timeout_reset(d, TRUE)

----------------------------------------------------------------------------
(* Inputs *)

\* what add() is called with for the equation of index i: <<length, k>>,
\* the expression ExprText(length) and the scale 2^k
AddChoices(i) == IF i = 0 THEN {<<18, 0>>} ELSE {<<1, 1>>, <<0, 1>>}

\* the expression lengths registration is checked for
ExprLens == {0, 1, 17, 18, 34, MaxExprLen}

\* the lists of equations registration is checked for: any length of
\* ExprLens first, then lengths 0 and 18
RegLists ==
    UNION {{e \in [1..n -> ExprLens] : \A i \in 2..n : e[i] \in {0, 18}} :
              n \in 1..MaxEqs}

\* payloads written to the config characteristic
ConfigPayloads == {<<>>, <<0>>, <<0, 0>>, <<0, 1>>, <<1, 0>>, <<0, 0, 0>>}

\* 5-byte value records with the values 1000, INT32_MAX and -2, for the first
\* and the last equation and for the channel id MaxEqs, which is never the
\* index of an equation; a write is up to two records, cut to a length (a
\* write that ends inside a record carries the value 1000 in its first one)
ValueBytes == {<<0, 0, 3, 232>>, <<127, 255, 255, 255>>, <<255, 255, 255, 254>>}
ChannelIds == {0, MaxEqs - 1, MaxEqs}
Record(id, q) == <<id>> \o q
NotifyLens == {0, 3, 5, 8, 10}
NotifyPayloads ==
    {SubSeq(Record(c[1], c[2]) \o Record(0, <<0, 0, 3, 232>>), 1, c[3]) :
        c \in {x \in ChannelIds \X ValueBytes \X NotifyLens :
                  x[3] % 5 = 0 \/ x[2] = <<0, 0, 3, 232>>}}
\* CANSpoof::update arguments: 0x123, 0x01020304 and 0x7FFFFFFF; a byte of
\* data
CanIds == {291, 16909060, 2147483647}
CanData == {7, 255}

GarbageBytes == {0, 255}
UBOutcomes == {"fault", "stray"}

----------------------------------------------------------------------------
(* State machine *)

\* the fields a handler works on, as it finds them on entry
\* no handler is part-way through
Idle == [timer |-> "idle", ble |-> "idle"]

Entry == [state |-> state, eqs |-> eqs, t_state |-> t_state,
          sent |-> <<>>, armed |-> <<>>, crashed |-> crashed, stray |-> stray]

Event(kind, payload) == [kind |-> kind, from |-> state, payload |-> payload]

Commit(m, ev) ==
    /\ state' = m.state
    /\ eqs' = m.eqs
    /\ t_state' = m.t_state
    /\ sent' = m.sent
    /\ armed' = m.armed
    /\ crashed' = m.crashed
    /\ stray' = m.stray
    /\ last' = ev
    /\ pc' = pc

\* Monitor::Monitor: no equations yet, state STARTED, configure_equations()
Constructed ==
    configure_equations(
        [state |-> STARTED, eqs |-> <<>>, t_state |-> 0, sent |-> <<>>,
         armed |-> <<>>, crashed |-> FALSE, stray |-> FALSE], 0)

Init ==
    /\ state = Constructed.state
    /\ eqs = Constructed.eqs
    /\ t_state = Constructed.t_state
    /\ sent = Constructed.sent
    /\ armed = Constructed.armed
    /\ crashed = FALSE
    /\ stray = FALSE
    /\ pc = Idle
    /\ connected = 0
    /\ last = [kind |-> "construct", from |-> UNINITIALIZED, payload |-> <<>>]

\* Monitor::add
Add ==
    /\ ~crashed
    /\ Len(eqs) < MaxEqs
    /\ \E c \in AddChoices(Len(eqs)) :
          Commit([Entry EXCEPT !.eqs = Append(@, Equation(ExprText(c[1]), c[2]))],
                 Event("add", <<>>))
    /\ UNCHANGED connected

\* a peer connects to the BLE server
Connect ==
    /\ ~crashed
    /\ connected < MaxPeers
    /\ connected' = connected + 1
    /\ Commit(Entry, Event("connect", <<>>))

\* a peer disconnects; impl::ServerCallbacks::onDisconnect restarts advertising
Disconnect ==
    /\ ~crashed
    /\ connected > 0
    /\ connected' = connected - 1
    /\ Commit(Entry, Event("disconnect", <<>>))

\* the Ticker t_state expires: impl::t_state_callback
TimerFires ==
    /\ ~crashed
    /\ t_state # 0
    /\ Commit(timeout_state(Entry, connected), Event("timer", <<>>))
    /\ UNCHANGED connected

\* a connected peer writes to the config characteristic
ConfigWrite ==
    /\ ~crashed
    /\ connected > 0
    /\ \E raw \in ConfigPayloads :
          Commit(MonConfigCallbacks_onWrite(Entry, raw), Event("config", raw))
    /\ UNCHANGED connected

\* a connected peer writes to the notify characteristic
NotifyWrite ==
    /\ ~crashed
    /\ connected > 0
    /\ \E raw \in NotifyPayloads, g \in GarbageBytes, ub \in UBOutcomes :
          Commit(MonNotifyCallbacks_onWrite(Entry, raw, g, ub), Event("notify", raw))
    /\ UNCHANGED connected

\* the application calls Monitor::reset()
Reset ==
    /\ ~crashed
    /\ Commit(reset(Entry, connected), Event("reset", <<>>))
    /\ UNCHANGED connected

\* the application calls Monitor::update_all()
UpdateAll ==
    /\ ~crashed
    /\ Commit(update_all(Entry), Event("update_all", <<>>))
    /\ UNCHANGED connected

\* the application calls CANSpoof::update(id, data)
CanUpdate ==
    /\ ~crashed
    /\ \E id \in CanIds, data \in CanData :
          Commit(CANSpoof_update(Entry, connected, id, data),
                 Event("can", <<id, data>>))
    /\ UNCHANGED connected

Next ==
    \/ Add
    \/ Connect
    \/ Disconnect
    \/ TimerFires
    \/ ConfigWrite
    \/ NotifyWrite
    \/ Reset
    \/ UpdateAll
    \/ CanUpdate

Spec == Init /\ [][Next]_vars

\* Registration: the engine after construction and the add() calls for one
\* of the lists of RegLists, driven by everything but value writes
InitReg ==
    /\ \E e \in RegLists :
          eqs = [i \in 1..Len(e) |-> Equation(ExprText(e[i]), i - 1)]
    /\ state = Constructed.state
    /\ t_state = Constructed.t_state
    /\ sent = <<>>
    /\ armed = <<>>
    /\ crashed = FALSE
    /\ stray = FALSE
    /\ pc = Idle
    /\ connected \in 0..MaxPeers
    /\ last = [kind |-> "add", from |-> STARTED, payload |-> <<>>]

NextReg ==
    \/ Connect
    \/ Disconnect
    \/ TimerFires
    \/ ConfigWrite
    \/ Reset
    \/ UpdateAll

SpecReg == InitReg /\ [][NextReg]_vars

\* Silence: the engine with one of the lists of RegLists in any session
\* state, the timer armed as the handler that led there left it, and a peer
\* that writes nothing from now on; the Ticker keeps expiring
InitSilent ==
    /\ \E e \in RegLists :
          eqs = [i \in 1..Len(e) |-> Equation(ExprText(e[i]), i - 1)]
    /\ state \in {STARTED, ACTIVE, FORCED_REFRESH}
    /\ t_state = IF state = FORCED_REFRESH
                 THEN TIMEOUT_RESET_MS - TIMEOUT_REFRESH_MS
                 ELSE TIMEOUT_REFRESH_MS
    /\ sent = <<>>
    /\ armed = <<>>
    /\ crashed = FALSE
    /\ stray = FALSE
    /\ pc = Idle
    /\ connected \in 0..MaxPeers
    /\ last = [kind |-> "silence", from |-> state, payload |-> <<>>]

NextSilent ==
    \/ TimerFires
    \/ Connect
    \/ Disconnect

SpecSilent == InitSilent /\ [][NextSilent]_vars /\ WF_vars(TimerFires)

\* Concurrency: the Ticker's task has entered timeout_state and the BLE
\* task has entered one of the onWrite callbacks for the write in last;
\* neither handler takes a lock, so their statements interleave freely.
\* pc.start keeps the members as they were when both were entered.
Cur == [state |-> state, eqs |-> eqs, t_state |-> t_state,
        sent |-> sent, armed |-> armed, crashed |-> crashed, stray |-> stray]

\* the writes the BLE task handles: success ack, failure ack, one value record
ConcWrites ==
    {<<"config", <<0, 0>>>>, <<"config", <<0, 1>>>>,
     <<"notify", Record(0, <<0, 0, 3, 232>>)>>}

InitConc ==
    /\ \E e \in RegLists :
          eqs = [i \in 1..Len(e) |-> Equation(ExprText(e[i]), i - 1)]
    /\ state \in {STARTED, ACTIVE, FORCED_REFRESH}
    /\ t_state = IF state = FORCED_REFRESH
                 THEN TIMEOUT_RESET_MS - TIMEOUT_REFRESH_MS
                 ELSE TIMEOUT_REFRESH_MS
    /\ sent = <<>>
    /\ armed = <<>>
    /\ crashed = FALSE
    /\ stray = FALSE
    /\ connected \in 1..MaxPeers
    /\ \E w \in ConcWrites :
          last = [kind |-> w[1], from |-> state, payload |-> w[2]]
    /\ pc = [timer |-> "switch", ble |-> "entry", start |-> Cur]

\* one task executes its next statement, leaving the members as in m
Advance(m, task, to) ==
    /\ state' = m.state
    /\ eqs' = m.eqs
    /\ t_state' = m.t_state
    /\ sent' = m.sent
    /\ armed' = m.armed
    /\ crashed' = m.crashed
    /\ stray' = m.stray
    /\ pc' = [pc EXCEPT ![task] = to]
    /\ UNCHANGED <<connected, last>>

\* timeout_state: switch(state)
TimerSwitch ==
    /\ pc.timer = "switch"
    /\ Advance(Cur, "timer",
               CASE state = STARTED -> "started_attach"
                 [] state = ACTIVE -> "active_attach"
                 [] state = FORCED_REFRESH -> "reset_indicate"
                 [] OTHER -> "done")

\* case STARTED: t_state.attach_ms(TIMEOUT_INIT_MS, ...)
TimerStartedAttach ==
    /\ pc.timer = "started_attach"
    /\ Advance(attach_ms(Cur, TIMEOUT_INIT_MS), "timer", "configure")

\* case ACTIVE: t_state.attach_ms(TIMEOUT_RESET_MS - TIMEOUT_REFRESH_MS, ...)
TimerActiveAttach ==
    /\ pc.timer = "active_attach"
    /\ Advance(attach_ms(Cur, TIMEOUT_RESET_MS - TIMEOUT_REFRESH_MS),
               "timer", "active_state")

\* case ACTIVE: state = FORCED_REFRESH
TimerActiveState ==
    /\ pc.timer = "active_state"
    /\ Advance([Cur EXCEPT !.state = FORCED_REFRESH], "timer", "active_update")

\* case ACTIVE: update_all()
TimerActiveUpdate ==
    /\ pc.timer = "active_update"
    /\ Advance(update_all(Cur), "timer", "done")

\* case FORCED_REFRESH, reset(): the Reset command and the clear loop
TimerResetIndicate ==
    /\ pc.timer = "reset_indicate"
    /\ LET m1 == IF connected > 0 THEN indicate(Cur, <<0>>) ELSE Cur
       IN  Advance([m1 EXCEPT !.eqs = ClearLoop(@)], "timer", "reset_state")

\* reset(): state = STARTED
TimerResetState ==
    /\ pc.timer = "reset_state"
    /\ Advance([Cur EXCEPT !.state = STARTED], "timer", "configure")

\* configure_equations(): the chunks of every equation
TimerConfigure ==
    /\ pc.timer = "configure"
    /\ Advance(IF connected = 0 THEN Cur
               ELSE IndicateAll(Cur, EquationLoop(eqs, 0)),
               "timer", "rearm")

\* configure_equations(): timeout_reset(false)
TimerRearm ==
    /\ pc.timer = "rearm"
    /\ Advance(timeout_reset(Cur, FALSE), "timer", "done")

\* MonConfigCallbacks::onWrite: the test of the payload
ConfigEntry ==
    /\ pc.ble = "entry"
    /\ last.kind = "config"
    /\ Advance(Cur, "ble",
               IF Len(last.payload) = 2 /\ last.payload[1] = 0
               THEN "rearm" ELSE "done")

\* MonNotifyCallbacks::onWrite: the decode loop
NotifyEntry ==
    /\ pc.ble = "entry"
    /\ last.kind = "notify"
    /\ \E g \in GarbageBytes, ub \in UBOutcomes :
          Advance(DecodeLoop(Cur, last.payload, 0, g, ub), "ble", "rearm")

\* timeout_reset(true): switch(state) and t_state.attach_ms(TIMEOUT_REFRESH_MS, ...)
BleRearm ==
    /\ pc.ble = "rearm"
    /\ Advance(timeout_reset(Cur, FALSE), "ble",
               IF state \in {STARTED, ACTIVE, FORCED_REFRESH}
               THEN "set_active" ELSE "done")

\* timeout_reset(true): state = ACTIVE
BleSetActive ==
    /\ pc.ble = "set_active"
    /\ Advance([Cur EXCEPT !.state = ACTIVE], "ble", "done")

NextConc ==
    \/ TimerSwitch
    \/ TimerStartedAttach
    \/ TimerActiveAttach
    \/ TimerActiveState
    \/ TimerActiveUpdate
    \/ TimerResetIndicate
    \/ TimerResetState
    \/ TimerConfigure
    \/ TimerRearm
    \/ ConfigEntry
    \/ NotifyEntry
    \/ BleRearm
    \/ BleSetActive

SpecConc == InitConc /\ [][NextConc]_vars

TypeOK ==
    /\ state \in monitor_state_t
    /\ connected \in 0..MaxPeers
    /\ Len(eqs) <= MaxEqs
    /\ crashed \in BOOLEAN
    /\ stray \in BOOLEAN

----------------------------------------------------------------------------
(* Vocabulary of the properties *)

ResetCmd == Msg("config", <<0>>)
UpdateAllCmd == Msg("config", <<4>>)

AllNoData == \A i \in 1..Len(eqs) : eqs[i].value = NAN

\* the last handler was reset(), called by the application or by the timer
AfterReset ==
    \/ last.kind = "reset"
    \/ last.kind = "timer" /\ last.from = FORCED_REFRESH

\* the success acknowledgement: exactly two bytes, the first 0
IsSuccessAck(p) == Len(p) = 2 /\ p[1] = 0

\* every record of the value write p starts with the index of an equation
IdsConfigured(p, n) ==
    \A i \in 0..(Len(p) - 1) : i % 5 = 0 => p[i + 1] < n

----------------------------------------------------------------------------
(* C1 *)

\* C1: after reset(), called explicitly or by the timer expiry in
\* FORCED_REFRESH, the state is STARTED and every equation's value is NoData
\* (the same after a second reset()).
C1_ResetClearsValues == AfterReset => (state = STARTED /\ AllNoData)

----------------------------------------------------------------------------
(* C2 *)

\* C2 as stated: in STARTED a value write re-arms the timer at
\* TIMEOUT_REFRESH and the state stays STARTED (a write that faults on an
\* unconfigured channel id is left aside here).
C2_ValueWriteStaysStarted ==
    [][(state = STARTED /\ last'.kind = "notify" /\ ~crashed')
          => (state' = STARTED /\ armed' = <<TIMEOUT_REFRESH_MS>>)]_vars

\* C2 as amended: in STARTED a value write whose records all carry the index
\* of a configured equation re-arms the timer at TIMEOUT_REFRESH and advances
\* the session to ACTIVE; the session leaves STARTED only by a success
\* acknowledgement or by a value write.
C2_ValueWriteActivates ==
    [][/\ (state = STARTED /\ last'.kind = "notify"
              /\ IdsConfigured(last'.payload, Len(eqs)))
          => (state' = ACTIVE /\ armed' = <<TIMEOUT_REFRESH_MS>>
                /\ t_state' = TIMEOUT_REFRESH_MS)
       /\ (state = STARTED /\ state' # STARTED)
          => \/ last'.kind = "notify"
             \/ last'.kind = "config" /\ IsSuccessAck(last'.payload)]_vars

W_C2 ==
    /\ last.kind = "notify" /\ last.from = STARTED
    /\ Len(last.payload) = 10 /\ IdsConfigured(last.payload, Len(eqs))
    /\ state = ACTIVE

----------------------------------------------------------------------------
(* C3 *)

\* C3: in STARTED a config write advances to ACTIVE and re-arms the timer at
\* TIMEOUT_REFRESH if and only if its payload is exactly 2 bytes with first
\* byte 0; any other payload leaves the state and the pending deadline alone.
C3_AckInStarted ==
    [][(state = STARTED /\ last'.kind = "config")
          => IF IsSuccessAck(last'.payload)
             THEN state' = ACTIVE /\ armed' = <<TIMEOUT_REFRESH_MS>>
                  /\ t_state' = TIMEOUT_REFRESH_MS
             ELSE state' = STARTED /\ armed' = <<>> /\ t_state' = t_state]_vars

W_C3 ==
    /\ last.kind = "config" /\ last.from = STARTED
    /\ last.payload = <<0, 1>>
    /\ state = ACTIVE

----------------------------------------------------------------------------
(* C4 *)

\* C4: when the timer fires in ACTIVE the engine sends exactly one Update-all
\* (the single byte 4) and nothing else, re-arms the timer at TIMEOUT_RESET -
\* TIMEOUT_REFRESH, the state becomes FORCED_REFRESH and no equation changes.
C4_ActiveTimeout ==
    [][(state = ACTIVE /\ last'.kind = "timer")
          => /\ sent' = <<UpdateAllCmd>>
             /\ armed' = <<TIMEOUT_RESET_MS - TIMEOUT_REFRESH_MS>>
             /\ t_state' = TIMEOUT_RESET_MS - TIMEOUT_REFRESH_MS
             /\ state' = FORCED_REFRESH
             /\ eqs' = eqs]_vars

W_C4 ==
    /\ last.kind = "timer" /\ last.from = ACTIVE
    /\ state = FORCED_REFRESH
    /\ sent = <<UpdateAllCmd>>
    /\ ~AllNoData

----------------------------------------------------------------------------
(* Registration as the receiver sees it *)

IsChunk(x) == x.bytes[1] \in {2, 3}

\* the registration chunks among the messages ms, as byte sequences
Chunks(ms) ==
    LET cs == SelectSeq(ms, IsChunk) IN [k \in 1..Len(cs) |-> cs[k].bytes]

\* the positions in c of the chunks of equation i
ChunksOf(c, i) == {k \in 1..Len(c) : c[k][2] = i}

RECURSIVE Reassemble(_, _, _)
\* the text fragments of equation i from sequence number s on, joined in
\* sequence-number order
Reassemble(c, i, s) ==
    LET hits == {k \in ChunksOf(c, i) : c[k][3] = s}
    IN  IF hits = {} THEN <<>>
        ELSE LET k == CHOOSE h \in hits : TRUE
             IN  SubSeq(c[k], 4, Len(c[k])) \o Reassemble(c, i, s + 1)

\* the last handler ran the registration algorithm with a peer connected
RegistrationRan ==
    /\ connected > 0
    /\ \/ AfterReset
       \/ last.kind = "timer" /\ last.from = STARTED

\* chunk k is the last one of its equation
IsLastChunk(c, k) == k = Len(c) \/ c[k + 1][2] # c[k][2]

\* order, numbering, kinds and sizes of the chunks c sent for the equations
\* es, the final chunk carrying lo..17 text bytes
ChunkFormat(c, es, lo) ==
    /\ \A k \in 1..Len(c) : c[k][2] \in 0..(Len(es) - 1) /\ Len(c[k]) <= 20
    /\ \A j, k \in 1..Len(c) : j < k => c[j][2] <= c[k][2]
    /\ \A k \in 1..Len(c) :
          IF k = 1 \/ c[k - 1][2] # c[k][2]
          THEN c[k][3] = 0
          ELSE c[k][3] = c[k - 1][3] + 1
    /\ \A k \in 1..Len(c) :
          IF IsLastChunk(c, k)
          THEN c[k][1] = 3 /\ Len(c[k]) - 3 \in lo..17
          ELSE c[k][1] = 2 /\ Len(c[k]) - 3 = 17

----------------------------------------------------------------------------
(* C5 *)

\* C5: when the timer fires in FORCED_REFRESH the engine sends the Reset
\* command (the single byte 0) if and only if a peer is connected, sends it
\* before any registration chunk, then resends the registration of every
\* equation, ends in STARTED and leaves the timer armed at TIMEOUT_REFRESH.
C5_ForcedRefreshTimeout ==
    [][(state = FORCED_REFRESH /\ last'.kind = "timer")
          => /\ (\E k \in 1..Len(sent') : sent'[k] = ResetCmd) <=> connected > 0
             /\ connected > 0
                => /\ sent'[1] = ResetCmd
                   /\ \A k \in 2..Len(sent') : IsChunk(sent'[k])
                   /\ \A i \in 1..Len(eqs) :
                         Reassemble(Chunks(sent'), i - 1, 0) = eqs[i].equation
             /\ state' = STARTED
             /\ t_state' = TIMEOUT_REFRESH_MS
             /\ armed' = <<TIMEOUT_REFRESH_MS>>]_vars

W_C5 ==
    /\ last.kind = "timer" /\ last.from = FORCED_REFRESH
    /\ connected > 0
    /\ Len(eqs) = MaxEqs
    /\ Len(sent) >= 3
    /\ state = STARTED

----------------------------------------------------------------------------
(* C6 *)

\* C6: from FORCED_REFRESH any value write, whatever its length or content,
\* re-arms the timer at TIMEOUT_REFRESH and moves the session to ACTIVE; from
\* ACTIVE any value write re-arms the timer at TIMEOUT_REFRESH and the
\* session stays ACTIVE.
C6_ValueWriteRefreshes ==
    [][(state \in {ACTIVE, FORCED_REFRESH} /\ last'.kind = "notify")
          => (state' = ACTIVE /\ armed' = <<TIMEOUT_REFRESH_MS>>
                /\ t_state' = TIMEOUT_REFRESH_MS)]_vars

----------------------------------------------------------------------------
(* C7 *)

\* C7 as stated: in ACTIVE and FORCED_REFRESH every config write, with no
\* condition on its payload, re-arms the timer at TIMEOUT_REFRESH, and from
\* FORCED_REFRESH it also advances the session to ACTIVE.
C7_AnyAckRefreshes ==
    [][(state \in {ACTIVE, FORCED_REFRESH} /\ last'.kind = "config")
          => (armed' = <<TIMEOUT_REFRESH_MS>> /\ t_state' = TIMEOUT_REFRESH_MS
                /\ state' = ACTIVE)]_vars

\* C7 as amended: in ACTIVE and FORCED_REFRESH a config write re-arms the
\* timer at TIMEOUT_REFRESH, and from FORCED_REFRESH advances the session to
\* ACTIVE, if and only if its payload is exactly 2 bytes with first byte 0;
\* any other payload leaves the state and the pending deadline alone.
C7_SuccessAckRefreshes ==
    [][(state \in {ACTIVE, FORCED_REFRESH} /\ last'.kind = "config")
          => IF IsSuccessAck(last'.payload)
             THEN armed' = <<TIMEOUT_REFRESH_MS>> /\ t_state' = TIMEOUT_REFRESH_MS
                  /\ state' = ACTIVE
             ELSE armed' = <<>> /\ t_state' = t_state /\ state' = state]_vars

W_C7 ==
    /\ last.kind = "config" /\ last.from = FORCED_REFRESH
    /\ last.payload = <<1, 0>>
    /\ state = FORCED_REFRESH
    /\ armed = <<>>

----------------------------------------------------------------------------
(* C8 *)

\* C8 as stated: in a run of the registration algorithm with a peer
\* connected every equation, one with an empty expression included, produces
\* at least one chunk; the equations go in index order; per equation the
\* sequence number starts at 0 and grows by 1; every chunk but the last has
\* kind 2 and 17 text bytes, the last has kind 3 and 0..17 text bytes; no
\* chunk exceeds 20 bytes.
C8_EveryEquationHasAChunk ==
    RegistrationRan
    => /\ ChunkFormat(Chunks(sent), eqs, 0)
       /\ \A i \in 1..Len(eqs) : ChunksOf(Chunks(sent), i - 1) # {}

\* C8 as amended: an equation produces at least one chunk exactly when its
\* expression is not empty (an empty expression produces none); the rest as
\* stated, the last chunk carrying 1..17 text bytes.
C8_NonEmptyEquationHasAChunk ==
    RegistrationRan
    => /\ ChunkFormat(Chunks(sent), eqs, 1)
       /\ \A i \in 1..Len(eqs) :
             ChunksOf(Chunks(sent), i - 1) # {} <=> eqs[i].equation # <<>>

W_C8 ==
    /\ RegistrationRan
    /\ Len(eqs) = MaxEqs
    /\ eqs[1].equation = <<>>
    /\ Len(eqs[MaxEqs].equation) = 18
    /\ Len(Chunks(sent)) = 2

----------------------------------------------------------------------------
(* C9 *)

\* C9: for an expression of length 0, 1, 17, 18, 34 or 35, joining the text
\* fragments (bytes 3 onward) of the chunks sent for that equation in
\* sequence-number order gives the expression back: no byte is lost,
\* duplicated or reordered, and every chunk is used exactly once.
C9_RoundTrip ==
    RegistrationRan
    => LET c == Chunks(sent)
       IN  \A i \in 1..Len(eqs) :
              /\ Reassemble(c, i - 1, 0) = eqs[i].equation
              /\ \A k \in ChunksOf(c, i - 1) :
                    c[k][3] < Cardinality(ChunksOf(c, i - 1))
              /\ \A j, k \in ChunksOf(c, i - 1) : c[j][3] = c[k][3] => j = k

W_C9 ==
    /\ RegistrationRan
    /\ Len(eqs[1].equation) = MaxExprLen
    /\ Cardinality(ChunksOf(Chunks(sent), 0)) = 3

----------------------------------------------------------------------------
(* C10 *)

\* C10: while no peer is connected no handler puts anything on the
\* transport: a timer expiry, an inbound write or reset() with no peer
\* connected sends no Reset, no Update-all and no registration chunk.
C10_SilentWithoutPeer ==
    (connected = 0 /\ last.kind \in {"timer", "config", "notify", "reset"})
    => sent = <<>>

----------------------------------------------------------------------------
(* C11 *)

\* the handler of this step runs configure_equations(): the timer expiry in
\* STARTED or FORCED_REFRESH, or reset()
RunsRegistration ==
    \/ last'.kind = "reset"
    \/ last'.kind = "timer" /\ state \in {STARTED, FORCED_REFRESH}

\* C11: configure_equations() with no peer connected sends no chunk, leaves
\* the state (STARTED at each of its calls) as it is and still re-arms the
\* timer at TIMEOUT_REFRESH; a later timer expiry with a peer connected then
\* sends the registration of every equation.
C11_NoPeerRegistration ==
    [][/\ (RunsRegistration /\ connected = 0)
          => /\ sent' = <<>>
             /\ state' = STARTED
             /\ t_state' = TIMEOUT_REFRESH_MS
             /\ armed' # <<>> /\ armed'[Len(armed')] = TIMEOUT_REFRESH_MS
       /\ (last'.kind = "timer" /\ state = STARTED /\ connected > 0)
          => /\ \A k \in 1..Len(sent') : IsChunk(sent'[k])
             /\ \A i \in 1..Len(eqs) :
                   Reassemble(Chunks(sent'), i - 1, 0) = eqs[i].equation]_vars

\* the timer expired in STARTED with equations added and no peer connected
W_C11 ==
    /\ last.kind = "timer" /\ last.from = STARTED
    /\ connected = 0
    /\ Len(eqs) > 0
    /\ sent = <<>>
    /\ armed = <<TIMEOUT_INIT_MS, TIMEOUT_REFRESH_MS>>
    /\ state = STARTED

----------------------------------------------------------------------------
(* Value writes as the protocol describes them *)

\* the number of complete 5-byte records of the write p
WholeRecords(p) == Len(p) \div 5

\* the channel id of the k-th complete record (k from 1)
RecId(p, k) == p[5 * (k - 1) + 1]

\* the value of the k-th complete record: four bytes, big-endian, signed
RecRaw(p, k) ==
    LET b == [j \in 1..4 |-> p[5 * (k - 1) + 1 + j]]
        top == IF b[1] > 127 THEN b[1] - 256 ELSE b[1]
    IN  ((top * 256 + b[2]) * 256 + b[3]) * 256 + b[4]

\* the complete records of p that name the equation of index j (from 0)
NamedBy(p, j) == {k \in 1..WholeRecords(p) : RecId(p, k) = j}

Latest(S) == CHOOSE k \in S : \A h \in S : h <= k

\* raw * (1/scale) for a raw value a float holds exactly, NoData for INT32_MAX
Scaled(raw, scale_inv) ==
    IF raw = 2147483647 THEN [nan |-> TRUE]
    ELSE [nan |-> FALSE, sig |-> raw, exp |-> scale_inv.exp]

----------------------------------------------------------------------------
(* C12 *)

\* C12: a value write of length n applies only its floor(n/5) complete
\* records: an equation that no complete record names keeps its value (for
\* n = 0..4 no value changes), the trailing n mod 5 bytes are ignored.
C12_WholeRecordsOnly ==
    [][last'.kind = "notify"
          => \A i \in 1..Len(eqs) :
                NamedBy(last'.payload, i - 1) = {} => eqs'[i] = eqs[i]]_vars

----------------------------------------------------------------------------
(* C13 *)

\* C13: a record whose channel id is not the index of an equation is dropped:
\* no fault, no write outside the equation list, and the other records of
\* the write are still decoded.
C13_UnknownChannelDropped ==
    [][last'.kind = "notify"
          => /\ ~crashed'
             /\ ~stray'
             /\ Len(last'.payload) % 5 = 0
                => \A i \in 1..Len(eqs) :
                      LET S == NamedBy(last'.payload, i - 1)
                      IN  S # {} => eqs'[i].value
                                    = Scaled(RecRaw(last'.payload, Latest(S)),
                                             eqs[i].scale_inv)]_vars

----------------------------------------------------------------------------
(* C14 *)

\* C14: decoding complete records with configured channel ids reads the four
\* value bytes as a big-endian signed 32-bit integer raw and sets the named
\* equation's value to NoData when raw = INT32_MAX and to raw * (1/scale)
\* otherwise; every other equation keeps its value.
C14_RecordDecoding ==
    [][(/\ last'.kind = "notify"
        /\ Len(last'.payload) % 5 = 0
        /\ IdsConfigured(last'.payload, Len(eqs)))
          => /\ Len(eqs') = Len(eqs)
             /\ \A i \in 1..Len(eqs) :
                   LET S == NamedBy(last'.payload, i - 1)
                   IN  IF S = {} THEN eqs'[i] = eqs[i]
                       ELSE eqs'[i] =
                            [eqs[i] EXCEPT !.value =
                                Scaled(RecRaw(last'.payload, Latest(S)),
                                       eqs[i].scale_inv)]]_vars

\* raw 1000 for channel 0 with scale 1 gives 1000, the other equation
\* keeps NoData
W_C14 ==
    /\ last.kind = "notify"
    /\ last.payload = <<0, 0, 0, 3, 232>>
    /\ Len(eqs) = MaxEqs
    /\ eqs[1].value = [nan |-> FALSE, sig |-> 1000, exp |-> 0]
    /\ eqs[MaxEqs].value = NAN

----------------------------------------------------------------------------
(* C15 *)

\* C15: data_valid() is true exactly when the session state is Active or
\* ForcedRefresh; it is false right after construction and right after
\* every reset().
C15_DataValid ==
    /\ data_valid(state) <=> state \in {ACTIVE, FORCED_REFRESH}
    /\ (last.kind = "construct" \/ AfterReset) => ~data_valid(state)

\* a reset() called while data was valid
W_C15 ==
    /\ last.kind = "reset"
    /\ data_valid(last.from)
    /\ ~data_valid(state)

----------------------------------------------------------------------------
(* C16 *)

\* the timer expires in this step
Expiry == last'.kind = "timer"

\* C16: with no inbound write from some point on and the timer expiring
\* fairly, Active is followed by ForcedRefresh and then Started on two
\* consecutive expiries, TIMEOUT_RESET after the last contact; Started is
\* reached, is never left, and every expiry in Started runs the registration
\* algorithm again.
C16_RecoversFromSilence ==
    /\ [][/\ (Expiry /\ state = ACTIVE)
             => /\ state' = FORCED_REFRESH
                /\ t_state + t_state' = TIMEOUT_RESET_MS
          /\ (Expiry /\ state = FORCED_REFRESH) => state' = STARTED
          /\ (Expiry /\ state = STARTED)
             => /\ state' = STARTED
                /\ connected = 0 => sent' = <<>>
                /\ connected > 0
                   => \A i \in 1..Len(eqs) :
                         Reassemble(Chunks(sent'), i - 1, 0) = eqs[i].equation
          /\ ~Expiry => state' = state]_vars
    /\ (state = ACTIVE) ~> (state = STARTED)
    /\ <>[](state = STARTED)

\* the second expiry of the silence: reset() from ForcedRefresh
W_C16 ==
    /\ last.kind = "timer"
    /\ last.from = FORCED_REFRESH
    /\ state = STARTED
    /\ connected > 0
    /\ sent[1] = ResetCmd
    /\ t_state = TIMEOUT_REFRESH_MS

----------------------------------------------------------------------------
(* C18 *)

\* C18: CANSpoof::update(id, data) with a peer connected publishes exactly
\* one 5-byte frame on the main channel, bytes 0..3 the id in little-endian
\* order and byte 4 the data (update(0x123, 7) gives 23 01 00 00 07 hex);
\* with no peer connected it publishes nothing; it changes no Monitor state.
C18_CanFrame ==
    [][last'.kind = "can"
          => LET id == last'.payload[1]
                 data == last'.payload[2]
             IN  /\ connected > 0
                    => /\ Len(sent') = 1
                       /\ sent'[1].ch = "main"
                       /\ Len(sent'[1].bytes) = 5
                       /\ \A k \in 1..5 : sent'[1].bytes[k] \in 0..255
                       /\ sent'[1].bytes[1] + 256 * sent'[1].bytes[2]
                          + 65536 * sent'[1].bytes[3]
                          + 16777216 * sent'[1].bytes[4] = id
                       /\ sent'[1].bytes[5] = data
                       /\ (id = 291 /\ data = 7)
                          => sent'[1].bytes = <<35, 1, 0, 0, 7>>
                 /\ connected = 0 => sent' = <<>>
                 /\ state' = state
                 /\ eqs' = eqs
                 /\ t_state' = t_state
                 /\ armed' = <<>>]_vars

\* update(0x123, 7) with a peer connected
W_C18 ==
    /\ last.kind = "can"
    /\ last.payload = <<291, 7>>
    /\ connected > 0
    /\ sent = <<Msg("main", <<35, 1, 0, 0, 7>>)>>

----------------------------------------------------------------------------
(* C19 *)

\* C19: when the timer fires in Started the session stays in Started, the
\* registration is resent if a peer is connected, and at the end of the
\* handler the pending deadline is TIMEOUT_INIT.
C19_StartedRearmsInit ==
    [][(last'.kind = "timer" /\ state = STARTED)
          => /\ state' = STARTED
             /\ connected > 0
                => \A i \in 1..Len(eqs) :
                      Reassemble(Chunks(sent'), i - 1, 0) = eqs[i].equation
             /\ t_state' = TIMEOUT_INIT_MS]_vars

----------------------------------------------------------------------------
(* C20 *)

\* C20: from the end of construction on, after every entry point the session
\* state is Started, Active or ForcedRefresh and one deadline is pending,
\* one of the three the engine arms; the timer handler arms the timer again
\* on every expiry, and a handler's last arming is the pending deadline.
C20_OneDeadlinePending ==
    /\ state \in {STARTED, ACTIVE, FORCED_REFRESH}
    /\ t_state \in {TIMEOUT_INIT_MS, TIMEOUT_REFRESH_MS,
                    TIMEOUT_RESET_MS - TIMEOUT_REFRESH_MS}
    /\ last.kind \in {"timer", "reset", "construct"} => armed # <<>>
    /\ armed # <<>> => t_state = armed[Len(armed)]

\* the expiry in Active armed the reset deadline and nothing else
W_C20 ==
    /\ last.kind = "timer"
    /\ last.from = ACTIVE
    /\ armed = <<TIMEOUT_RESET_MS - TIMEOUT_REFRESH_MS>>
    /\ t_state = TIMEOUT_RESET_MS - TIMEOUT_REFRESH_MS

----------------------------------------------------------------------------
(* C17 *)

\* the write handler for the write in last, run to completion
WriteHandler(m) ==
    IF last.kind = "config"
    THEN MonConfigCallbacks_onWrite(m, last.payload)
    ELSE MonNotifyCallbacks_onWrite(m, last.payload, 0, "fault")

\* the session state, the timer deadline and the equations of m
Members(m) == [state |-> m.state, t_state |-> m.t_state, eqs |-> m.eqs]

\* the timer handler before the write handler, and the other way round
SerialOutcomes ==
    {Members(WriteHandler(timeout_state(pc.start, connected))),
     Members(timeout_state(WriteHandler(pc.start), connected))}

BothDone == pc.timer = "done" /\ pc.ble = "done"

\* C17: the timer handler and a write handler invoked concurrently exclude
\* each other, so that when both have finished the session state, the timer
\* deadline and the equation values are those of running the two handlers
\* one after the other in one of the two orders.
C17_Serializable == BothDone => Members(Cur) \in SerialOutcomes

====
